---- MODULE Spec2Model ----
(***************************************************************************)
(* Model of the Generation-III creature record codec of the shiny hunter:  *)
(* src/src/utils/pokemon.py, src/src/utils/memory.py,                      *)
(* src/src/constants/memory.py, src/src/utils/healer.py and the IV helpers *)
(* of src/src/debug/select_best_shinies.py; and of the scripts that use    *)
(* it: the hunt loops of src/src/hunt.py and src/src/route102.py, the      *)
(* battle helpers of src/src/battle.py and the selection of                *)
(* src/src/debug/select_best_shinies.py, each under its own specification. *)
(*                                                                         *)
(* A 32-bit word is kept as the four little-endian bytes <<b0,b1,b2,b3>>   *)
(* that read_u32 assembles (b0 | b1<<8 | b2<<16 | b3<<24): Python integers *)
(* are unbounded, the checker's are not, so every 32-bit operation below   *)
(* is computed on the bytes.  16-bit and smaller values are plain numbers. *)
(***************************************************************************)
EXTENDS Integers, Sequences, FiniteSets, TLC

VARIABLES mem, op, arg, loc, ret, hunter, route102, farmer, shinies

vars == <<mem, op, arg, loc, ret, hunter, route102, farmer, shinies>>

\* the objects of the hunting, farming and selection scripts
progs == <<hunter, route102, farmer, shinies>>

\* an object whose script is not running
Idle == [pc |-> "idle"]

----------------------------------------------------------------------------
(* Bounds of the model *)

\* personality values 0..MaxSmallPv are enumerated (all 24 orders, plus wrap)
MaxSmallPv == 24

----------------------------------------------------------------------------
(* Bit arithmetic *)

RECURSIVE XorN(_, _, _)
\* Python's a ^ b on two n-bit numbers
XorN(a, b, n) ==
    IF n = 0 THEN 0
    ELSE (((a % 2) + (b % 2)) % 2) + 2 * XorN(a \div 2, b \div 2, n - 1)

RECURSIVE Pow2(_)
Pow2(n) == IF n = 0 THEN 1 ELSE 2 * Pow2(n - 1)

Zero32 == <<0, 0, 0, 0>>

\* the word holding the number n (n < 2^31)
U32(n) == <<n % 256, (n \div 256) % 256, (n \div 65536) % 256, (n \div 16777216) % 256>>

\* a ^ b on 4-bit numbers, tabulated
XorNibble == [a \in 0..15, b \in 0..15 |-> XorN(a, b, 4)]

\* a ^ b on bytes: the two nibbles
XorByte(a, b) == XorNibble[a % 16, b % 16] + 16 * XorNibble[a \div 16, b \div 16]

\* w1 ^ w2 on 32-bit words
Xor32(w1, w2) ==
    <<XorByte(w1[1], w2[1]), XorByte(w1[2], w2[2]), XorByte(w1[3], w2[3]), XorByte(w1[4], w2[4])>>

\* bit i (0..31) of word w
BitOf(w, i) == (w[(i \div 8) + 1] \div Pow2(i % 8)) % 2

RECURSIVE Field(_, _, _)
\* (w >> shift) & (2^width - 1); bits above bit 31 are zero
Field(w, shift, width) ==
    IF width = 0 THEN 0
    ELSE (IF shift <= 31 THEN BitOf(w, shift) ELSE 0) + 2 * Field(w, shift + 1, width - 1)

\* w & 0xFFFF and (w >> 16) & 0xFFFF
Low16(w) == w[1] + 256 * w[2]
High16(w) == w[3] + 256 * w[4]

\* w % m for a small modulus m
Mod32(w, m) == ((((((w[4] % m) * 256 + w[3]) % m) * 256 + w[2]) % m) * 256 + w[1]) % m

----------------------------------------------------------------------------
(* Memory bus: src/src/utils/memory.py.  Addresses are relative to the     *)
(* base address of the creature record.                                    *)

RecordSize == 100

read_u8(m, address) == m[address]

read_u16(m, address) == m[address] + 256 * m[address + 1]

read_u32(m, address) == <<m[address], m[address + 1], m[address + 2], m[address + 3]>>

\* busWrite8(address, value & 0xFF); busWrite8(address + 1, (value >> 8) & 0xFF)
write_u16(m, address, value) ==
    [m EXCEPT ![address] = value % 256, ![address + 1] = (value \div 256) % 256]

\* busWrite32(address, value): the four bytes of the word, little-endian
write_u32(m, address, w) ==
    [m EXCEPT ![address] = w[1], ![address + 1] = w[2],
              ![address + 2] = w[3], ![address + 3] = w[4]]

----------------------------------------------------------------------------
(* Record layout: src/src/constants/memory.py *)

POKEMON_PV_OFFSET == 0
POKEMON_OTID_OFFSET == 4
POKEMON_OTSID_OFFSET == 6
POKEMON_ENCRYPTED_OFFSET == 32
SUBSTRUCTURE_SIZE == 12
ENEMY_LEVEL_OFFSET == 84
POKEMON_HP_OFFSET == 86
POKEMON_MAX_HP_OFFSET == 88
POKEMON_STATUS_OFFSET == 80

\* the table with one entry mistyped into a copy of its neighbour
SUBSTRUCTURE_ORDERS_typo ==
    << <<"G","A","E","M">>, <<"G","A","M","E">>, <<"G","E","A","M">>,
       <<"G","E","M","A">>, <<"G","M","A","E">>, <<"G","M","E","A">>,
       <<"A","G","E","M">>, <<"A","G","M","E">>, <<"A","E","G","M">>,
       <<"A","E","M","G">>, <<"A","M","G","E">>, <<"A","M","E","G">>,
       <<"E","G","M","A">>, <<"E","G","M","A">>, <<"E","A","G","M">>,
       <<"E","A","M","G">>, <<"E","M","G","A">>, <<"E","M","A","G">>,
       <<"M","G","A","E">>, <<"M","G","E","A">>, <<"M","A","G","E">>,
       <<"M","A","E","G">>, <<"M","E","G","A">>, <<"M","E","A","G">> >>

SUBSTRUCTURE_ORDERS ==
    << <<"G","A","E","M">>, <<"G","A","M","E">>, <<"G","E","A","M">>,
       <<"G","E","M","A">>, <<"G","M","A","E">>, <<"G","M","E","A">>,
       <<"A","G","E","M">>, <<"A","G","M","E">>, <<"A","E","G","M">>,
       <<"A","E","M","G">>, <<"A","M","G","E">>, <<"A","M","E","G">>,
       <<"E","G","A","M">>, <<"E","G","M","A">>, <<"E","A","G","M">>,
       <<"E","A","M","G">>, <<"E","M","G","A">>, <<"E","M","A","G">>,
       <<"M","G","A","E">>, <<"M","G","E","A">>, <<"M","A","G","E">>,
       <<"M","A","E","G">>, <<"M","E","G","A">>, <<"M","E","A","G">> >>

\* the lookup with the index off by one
get_substructure_order_shifted(pv) == SUBSTRUCTURE_ORDERS[((Mod32(pv, 24) + 1) % 24) + 1]

\* SUBSTRUCTURE_ORDERS[pv % 24] (Python lists are 0-based)
get_substructure_order(pv) == SUBSTRUCTURE_ORDERS[Mod32(pv, 24) + 1]

\* order.index(tag): 0-based position of the first occurrence of tag
IndexOf(order, tag) == (CHOOSE i \in 1..Len(order) :
                          order[i] = tag /\ \A j \in 1..(i - 1) : order[j] # tag) - 1

----------------------------------------------------------------------------
(* Species number tables of constants/species.py.  The Hoenn species keep  *)
(* internal index = National Dex number + 25; the older ones keep their    *)
(* number.                                                                 *)

\* NATIONAL_DEX: National Dex number -> internal index
NATIONAL_DEX == [n \in 1..386 |-> IF n <= 251 THEN n ELSE n + 25]

\* get_national_dex(internal index): National Dex number, 0 when there is none
get_national_dex(species_id) ==
    IF species_id \in 1..251 THEN species_id
    ELSE IF species_id \in 277..411 THEN species_id - 25
    ELSE 0

----------------------------------------------------------------------------
(* src/src/utils/pokemon.py *)

\* the key with otid read as a 16-bit value: read_u16(core, base_addr + 4)
XorKey_tid16(m) ==
    Xor32(<<m[POKEMON_OTID_OFFSET], m[POKEMON_OTID_OFFSET + 1], 0, 0>>,
          read_u32(m, POKEMON_PV_OFFSET))

\* xor_key = otid ^ pv, with otid = read_u32(core, base_addr + 4)
XorKey(m) == Xor32(read_u32(m, POKEMON_OTID_OFFSET), read_u32(m, POKEMON_PV_OFFSET))

\* address of the first word of the block tagged tag
BlockAddr(m, tag) ==
    POKEMON_ENCRYPTED_OFFSET
      + IndexOf(get_substructure_order(read_u32(m, POKEMON_PV_OFFSET)), tag) * SUBSTRUCTURE_SIZE

\* the species taken from the upper half of the word: (dec_val >> 16) & 0xFFFF
RawSpecies_high16(m) == High16(Xor32(read_u32(m, BlockAddr(m, "G")), XorKey(m)))

\* species_id = (enc_val ^ xor_key) & 0xFFFF of the first Growth word
RawSpecies(m) == Low16(Xor32(read_u32(m, BlockAddr(m, "G")), XorKey(m)))

\* the chain of lookups with the -25 correction tried before the direct match
LookupSpecies_offset_first(species_id, pokemon_species) ==
    IF species_id - 25 \in pokemon_species
      THEN [species_id |-> species_id - 25,
            name |-> [kind |-> "known", key |-> species_id - 25]]
    ELSE IF species_id \in pokemon_species
      THEN [species_id |-> species_id, name |-> [kind |-> "known", key |-> species_id]]
    ELSE [species_id |-> species_id, name |-> [kind |-> "unknown", key |-> species_id]]

\* the chain of lookups that follows the decryption: the id that is returned
LookupSpecies(species_id, pokemon_species) ==
    IF species_id \in pokemon_species
      THEN [species_id |-> species_id, name |-> [kind |-> "known", key |-> species_id]]
    ELSE IF species_id \in DOMAIN NATIONAL_DEX /\ NATIONAL_DEX[species_id] \in pokemon_species
      THEN [species_id |-> NATIONAL_DEX[species_id],
            name |-> [kind |-> "known", key |-> NATIONAL_DEX[species_id]]]
    ELSE IF get_national_dex(species_id) \in pokemon_species
      THEN [species_id |-> get_national_dex(species_id),
            name |-> [kind |-> "known", key |-> get_national_dex(species_id)]]
    ELSE IF species_id - 25 \in pokemon_species
      THEN [species_id |-> species_id - 25,
            name |-> [kind |-> "known", key |-> species_id - 25]]
    ELSE IF species_id + 25 \in pokemon_species
      THEN [species_id |-> species_id + 25,
            name |-> [kind |-> "known", key |-> species_id + 25]]
    ELSE [species_id |-> species_id, name |-> [kind |-> "unknown", key |-> species_id]]

\* decrypt_species(core, base_addr, pokemon_species): locals and return value
decrypt_species(m, pokemon_species) ==
    LET pv == read_u32(m, POKEMON_PV_OFFSET) IN
    IF pv = Zero32
      THEN [loc |-> [pv |-> pv],
            ret |-> [pv |-> Zero32, species_id |-> 0, name |-> [kind |-> "empty"]]]
      ELSE LET found == LookupSpecies(RawSpecies(m), pokemon_species) IN
           [loc |-> [pv |-> pv,
                     otid |-> read_u32(m, POKEMON_OTID_OFFSET),
                     order |-> get_substructure_order(pv),
                     enc_addr |-> BlockAddr(m, "G"),
                     enc_val |-> read_u32(m, BlockAddr(m, "G")),
                     xor_key |-> XorKey(m),
                     species_id |-> RawSpecies(m)],
            ret |-> [pv |-> pv, species_id |-> found.species_id, name |-> found.name]]

\* the shiny test with the threshold included: shiny_value <= 8
calculate_shiny_value_le8(tid, sid, pv) ==
    LET pv_low == Low16(pv)
        pv_high == High16(pv)
        tid_xor_sid == XorN(tid, sid, 16)
        pv_xor == XorN(pv_low, pv_high, 16)
        shiny_value == XorN(tid_xor_sid, pv_xor, 16)
    IN  [is_shiny |-> shiny_value <= 8,
         shiny_value |-> shiny_value,
         details |-> [pv_low |-> pv_low, pv_high |-> pv_high,
                      tid_xor_sid |-> tid_xor_sid, pv_xor |-> pv_xor,
                      shiny_value |-> shiny_value]]

\* the shiny value with the upper half shifted by 8 instead of 16
calculate_shiny_value_shift8(tid, sid, pv) ==
    LET pv_low == Low16(pv)
        pv_high == Field(pv, 8, 16)
        tid_xor_sid == XorN(tid, sid, 16)
        pv_xor == XorN(pv_low, pv_high, 16)
        shiny_value == XorN(tid_xor_sid, pv_xor, 16)
    IN  [is_shiny |-> shiny_value < 8,
         shiny_value |-> shiny_value,
         details |-> [pv_low |-> pv_low, pv_high |-> pv_high,
                      tid_xor_sid |-> tid_xor_sid, pv_xor |-> pv_xor,
                      shiny_value |-> shiny_value]]

\* calculate_shiny_value(tid, sid, pv): (is_shiny, shiny_value, details)
calculate_shiny_value(tid, sid, pv) ==
    LET pv_low == Low16(pv)
        pv_high == High16(pv)
        tid_xor_sid == XorN(tid, sid, 16)
        pv_xor == XorN(pv_low, pv_high, 16)
        shiny_value == XorN(tid_xor_sid, pv_xor, 16)
    IN  [is_shiny |-> shiny_value < 8,
         shiny_value |-> shiny_value,
         details |-> [pv_low |-> pv_low, pv_high |-> pv_high,
                      tid_xor_sid |-> tid_xor_sid, pv_xor |-> pv_xor,
                      shiny_value |-> shiny_value]]

\* check_shiny(core, pv_addr, tid, sid): (is_shiny, pv, shiny_value, details)
check_shiny(m, tid, sid) ==
    LET pv == read_u32(m, POKEMON_PV_OFFSET) IN
    IF pv = Zero32
      THEN [is_shiny |-> FALSE, pv |-> Zero32, shiny_value |-> 0, details |-> [empty |-> TRUE]]
      ELSE LET r == calculate_shiny_value(tid, sid, pv) IN
           [is_shiny |-> r.is_shiny, pv |-> pv, shiny_value |-> r.shiny_value,
            details |-> r.details]

\* the fields with the first mask one bit too wide: iv_data & 0x3F
UnpackIvs_six_bit_hp(iv_data) ==
    LET hp  == Field(iv_data, 0, 6)
        atk == Field(iv_data, 5, 5)
        def == Field(iv_data, 10, 5)
        spe == Field(iv_data, 15, 5)
        spa == Field(iv_data, 20, 5)
        spd == Field(iv_data, 25, 5)
    IN  [hp |-> hp, atk |-> atk, def |-> def, spe |-> spe, spa |-> spa, spd |-> spd,
         total |-> hp + atk + def + spe + spa + spd]

\* the fields with the last mask too wide: (iv_data >> 25) & 0x7F
UnpackIvs_wide_spd(iv_data) ==
    LET hp  == Field(iv_data, 0, 5)
        atk == Field(iv_data, 5, 5)
        def == Field(iv_data, 10, 5)
        spe == Field(iv_data, 15, 5)
        spa == Field(iv_data, 20, 5)
        spd == Field(iv_data, 25, 7)
    IN  [hp |-> hp, atk |-> atk, def |-> def, spe |-> spe, spa |-> spa, spd |-> spd,
         total |-> hp + atk + def + spe + spa + spd]

\* the six 5-bit fields of iv_data, and their sum
UnpackIvs(iv_data) ==
    LET hp  == Field(iv_data, 0, 5)
        atk == Field(iv_data, 5, 5)
        def == Field(iv_data, 10, 5)
        spe == Field(iv_data, 15, 5)
        spa == Field(iv_data, 20, 5)
        spd == Field(iv_data, 25, 5)
    IN  [hp |-> hp, atk |-> atk, def |-> def, spe |-> spe, spa |-> spa, spd |-> spd,
         total |-> hp + atk + def + spe + spa + spd]

\* decrypt_ivs without its empty-slot return
decrypt_ivs_unguarded(m) ==
    LET pv == read_u32(m, POKEMON_PV_OFFSET)
        iv_addr == BlockAddr(m, "M") + 4
        iv_data == Xor32(read_u32(m, iv_addr), XorKey(m))
    IN  [loc |-> [pv |-> pv, iv_addr |-> iv_addr, xor_key |-> XorKey(m), iv_data |-> iv_data],
         ret |-> UnpackIvs(iv_data)]

\* decrypt_ivs(core, base_addr): locals and return value (None for an empty slot)
decrypt_ivs(m) ==
    LET pv == read_u32(m, POKEMON_PV_OFFSET) IN
    IF pv = Zero32
      THEN [loc |-> [pv |-> pv], ret |-> [none |-> TRUE]]
      ELSE LET iv_addr == BlockAddr(m, "M") + 4
               iv_data == Xor32(read_u32(m, iv_addr), XorKey(m))
           IN  [loc |-> [pv |-> pv, iv_addr |-> iv_addr, xor_key |-> XorKey(m),
                         iv_data |-> iv_data],
                ret |-> UnpackIvs(iv_data)]

\* the three trainer ids, seven data offsets and four positions it tries, in
\* loop order: candidate k (0..83) is (ot_tid, data_offset, substructure_pos)
ExtendedCandidate(tid_from_memory, sid_from_memory, k) ==
    [ot_tid |-> <<0, tid_from_memory, XorN(tid_from_memory, sid_from_memory, 16)>>[(k \div 28) + 1],
     data_offset |-> <<32, 0, 8, 16, 24, 40, 48>>[((k % 28) \div 4) + 1],
     substructure_pos |-> <<2, 0, 1, 3>>[(k % 4) + 1]]

\* the id candidate k decodes: (encrypted_val ^ ((ot_tid & 0xFFFF) ^ pv)) & 0xFFFF
ExtendedSpeciesAt(m, k) ==
    LET c == ExtendedCandidate(read_u16(m, POKEMON_OTID_OFFSET),
                               read_u16(m, POKEMON_PV_OFFSET + 6), k)
        encrypted_val == read_u32(m, POKEMON_PV_OFFSET + c.data_offset
                                        + c.substructure_pos * SUBSTRUCTURE_SIZE)
        xor_key == Xor32(<<c.ot_tid % 256, c.ot_tid \div 256, 0, 0>>,
                         read_u32(m, POKEMON_PV_OFFSET))
    IN  Low16(Xor32(encrypted_val, xor_key))

\* the nested loops: the result of the first candidate, in loop order, whose
\* decoded id passes one of the lookups, else (0, "Unknown (decryption failed)")
ExtendedSearch(m, pokemon_species) ==
    LET decoded == {<<k, ExtendedSpeciesAt(m, k)>> : k \in 0..83}
        hits == {d \in decoded : LookupSpecies(d[2], pokemon_species).name.kind = "known"}
    IN  IF hits = {} THEN [species_id |-> 0, name |-> [kind |-> "failed"]]
        ELSE LookupSpecies((CHOOSE d \in hits : \A e \in hits : d[1] <= e[1])[2],
                           pokemon_species)

\* decrypt_species_extended(core, pv_addr, tid_addr, pokemon_species)
decrypt_species_extended(m, pokemon_species) ==
    IF read_u32(m, POKEMON_PV_OFFSET) = Zero32
      THEN [species_id |-> 0, name |-> [kind |-> "empty"]]
      ELSE ExtendedSearch(m, pokemon_species)

\* read_bytes(core, address, length) at the record's base address
read_bytes(m, length) == [i \in 0..(length - 1) |-> m[i]]

\* the slice with its end one byte short: party_data[:79]
convert_party_to_box_short(party_data) ==
    [i \in {j \in DOMAIN party_data : j < 79} |-> party_data[i]]

\* the slice taken from the end: party_data[-80:]
convert_party_to_box_tail(party_data) ==
    LET n == Cardinality(DOMAIN party_data)
        start == IF n > 80 THEN n - 80 ELSE 0
    IN  [i \in 0..(n - start - 1) |-> party_data[i + start]]

\* convert_party_to_box(party_data) = party_data[:80]
convert_party_to_box(party_data) ==
    [i \in {j \in DOMAIN party_data : j < 80} |-> party_data[i]]

\* read_level(core, base_addr)
read_level(m) ==
    IF read_u32(m, POKEMON_PV_OFFSET) = Zero32 THEN 0 ELSE read_u8(m, ENEMY_LEVEL_OFFSET)

NATURE_NAMES ==
    << "Hardy", "Lonely", "Brave", "Adamant", "Naughty",
       "Bold", "Docile", "Relaxed", "Impish", "Lax",
       "Timid", "Hasty", "Serious", "Jolly", "Naive",
       "Modest", "Mild", "Quiet", "Bashful", "Rash",
       "Calm", "Gentle", "Sassy", "Careful", "Quirky" >>

\* get_nature_from_pv(pv) = NATURE_NAMES[pv % 25]
get_nature_from_pv(pv) == NATURE_NAMES[Mod32(pv, 25) + 1]

----------------------------------------------------------------------------
(* src/src/debug/select_best_shinies.py *)

\* decrypt_misc_substruct(core, base_addr): the decrypted IV word, 0 when empty
decrypt_misc_substruct(m) ==
    IF read_u32(m, POKEMON_PV_OFFSET) = Zero32 THEN Zero32
    ELSE Xor32(read_u32(m, BlockAddr(m, "M") + 4), XorKey(m))

\* extract_ivs(iv_data)
extract_ivs(iv_data) ==
    [hp  |-> Field(iv_data, 0, 5),  atk |-> Field(iv_data, 5, 5),
     def |-> Field(iv_data, 10, 5), spe |-> Field(iv_data, 15, 5),
     spa |-> Field(iv_data, 20, 5), spd |-> Field(iv_data, 25, 5)]

\* get_iv_total(ivs) = sum(ivs.values())
get_iv_total(ivs) == ivs.hp + ivs.atk + ivs.def + ivs.spe + ivs.spa + ivs.spd

----------------------------------------------------------------------------
(* src/src/utils/healer.py *)

\* base PP byte of the ROM move table entry read by _get_max_pp
MoveBasePP(move_id) == 5 * ((move_id % 8) + 1)

\* _get_max_pp: int(base_pp * (1 + 0.2 * pp_ups)); exact for the ROM's base PP
\* values, all multiples of 5 up to 40
get_max_pp(move_id, pp_ups) ==
    IF move_id = 0 THEN 0 ELSE (MoveBasePP(move_id) * (5 + pp_ups)) \div 5

\* address of the k-th (0..11) word of the encrypted region: i = k / 3, j = k % 3
WordAddr(k) == POKEMON_ENCRYPTED_OFFSET + (k \div 3) * SUBSTRUCTURE_SIZE + (k % 3) * 4

\* the 12 encrypted words as the first loop reads them
ReadAll(m) ==
    LET r(k) == read_u32(m, WordAddr(k))
    IN  <<r(0), r(1), r(2), r(3), r(4), r(5), r(6), r(7), r(8), r(9), r(10), r(11)>>

\* the first loop: dec_data.append(enc_word ^ xor_key) for the 12 words
DecryptAll(m, xor_key) ==
    LET d(k) == Xor32(read_u32(m, WordAddr(k)), xor_key)
    IN  <<d(0), d(1), d(2), d(3), d(4), d(5), d(6), d(7), d(8), d(9), d(10), d(11)>>

RECURSIVE Checksum(_, _)
\* 16-bit sum of the halves of the first k words of dec_data
Checksum(dec_data, k) ==
    IF k = 0 THEN 0
    ELSE (Checksum(dec_data, k - 1) + Low16(dec_data[k]) + High16(dec_data[k])) % 65536

RECURSIVE WriteBack_plain(_, _, _, _)
\* the last loop writing the decrypted words back as they are
WriteBack_plain(m, dec_data, xor_key, k) ==
    IF k = 12 THEN m
    ELSE WriteBack_plain(write_u32(m, WordAddr(k), dec_data[k + 1]), dec_data, xor_key, k + 1)

RECURSIVE WriteBack(_, _, _, _)
\* the last loop: write_u32(sub_addr + j*4, dec_data[i*3 + j] ^ xor_key), words k..11
WriteBack(m, dec_data, xor_key, k) ==
    IF k = 12 THEN m
    ELSE WriteBack(write_u32(m, WordAddr(k), Xor32(dec_data[k + 1], xor_key)),
                   dec_data, xor_key, k + 1)

\* heal_pokemon_at_address(core, base_addr): memory afterwards, locals, return value
heal_pokemon_at_address(m) ==
    LET pv == read_u32(m, POKEMON_PV_OFFSET)
        otid == read_u32(m, POKEMON_OTID_OFFSET)
    IN
    IF pv = Zero32 THEN [mem |-> m, loc |-> [pv |-> pv], ret |-> <<>>]
    ELSE
    LET max_hp == read_u16(m, POKEMON_MAX_HP_OFFSET)
        m1 == IF max_hp > 0
                THEN write_u32(write_u16(m, POKEMON_HP_OFFSET, max_hp),
                               POKEMON_STATUS_OFFSET, Zero32)
                ELSE m
        xor_key == Xor32(otid, pv)
        order == SUBSTRUCTURE_ORDERS[Mod32(pv, 24) + 1]
        dec0 == DecryptAll(m1, xor_key)
        a_pos == IndexOf(order, "A") * 3
        g_pos == IndexOf(order, "G") * 3
        pp_ups_byte == Field(dec0[g_pos + 2 + 1], 0, 8)
        pp_ups == [i \in 0..3 |-> (pp_ups_byte \div Pow2(i * 2)) % 4]
        moves == [i \in 0..3 |->
                    IF i = 0 THEN Low16(dec0[a_pos + 1])
                    ELSE IF i = 1 THEN High16(dec0[a_pos + 1])
                    ELSE IF i = 2 THEN Low16(dec0[a_pos + 2])
                    ELSE High16(dec0[a_pos + 2])]
        new_pp == [i \in 0..3 |-> get_max_pp(moves[i], pp_ups[i])]
        \* new_pp[0] | new_pp[1] << 8 | new_pp[2] << 16 | new_pp[3] << 24:
        \* every new_pp is below 256, so each one is a byte of the word
        dec_data == [dec0 EXCEPT ![a_pos + 2 + 1] =
                        <<new_pp[0], new_pp[1], new_pp[2], new_pp[3]>>]
        new_checksum == Checksum(dec_data, 12)
        m2 == WriteBack(m1, dec_data, xor_key, 0)
    IN  [mem |-> write_u16(m2, 28, new_checksum),
         loc |-> [pv |-> pv, xor_key |-> xor_key, enc_data |-> ReadAll(m),
                  dec_data |-> dec_data, pp_word |-> a_pos + 2, new_checksum |-> new_checksum],
         ret |-> <<"Healed">>]

----------------------------------------------------------------------------
(* The creature records the emulator memory can hold *)

\* personality values of the records
PVs ==
    {U32(n) : n \in 0..MaxSmallPv}
      \cup {U32(305419896), <<255, 255, 255, 255>>, <<0, 0, 0, 128>>, U32(65536),
            U32(48026), U32(48021)}

\* (original trainer id, original secret id) of the records
OriginalTrainers == {<<0, 0>>, <<56078, 24723>>}

\* (TID, SID) of the save file, as the hunters pass them
SaveTrainers == {<<0, 0>>, <<56078, 24723>>}

\* plaintext contents: species, IV word, maximum HP
Profiles ==
    { [species |-> 277, iv |-> <<255, 255, 255, 255>>, max_hp |-> 20],
      [species |-> 252, iv |-> <<255, 255, 255, 63>>,  max_hp |-> 20],
      [species |-> 302, iv |-> <<120, 86, 52, 18>>,    max_hp |-> 0],
      [species |-> 500, iv |-> <<0, 0, 0, 192>>,       max_hp |-> 20],
      [species |-> 277, iv |-> <<31, 128, 15, 254>>,   max_hp |-> 33] }

\* species tables a caller may supply (their keys)
SpeciesTables == { {}, {277, 280, 283}, {252, 255, 258}, {252, 277}, {475, 525}, {525} }

\* lengths of the buffers handed to convert_party_to_box
BufferLengths == {0, 60, 79, 80, 100}

\* the three plaintext words of the block tagged tag
PlainBlock(tag, pr) ==
    IF tag = "G" THEN << <<pr.species % 256, pr.species \div 256, 197, 0>>,
                         U32(1059860), <<228, 70, 0, 0>> >>
    ELSE IF tag = "A" THEN << <<33, 0, 45, 0>>, <<0, 0, 10, 0>>, <<1, 2, 0, 4>> >>
    ELSE IF tag = "E" THEN << <<1, 2, 3, 4>>, <<5, 6, 7, 8>>, <<9, 10, 11, 12>> >>
    ELSE << <<0, 16, 5, 49>>, pr.iv, <<0, 0, 0, 0>> >>

\* the record the game stores: header, the four blocks in the order fixed by the
\* personality value, each word XOR-ed with (32-bit OT id ^ personality value),
\* and the party tail (status, level, HP)
MkRecord(pv, ot, pr) ==
    LET otid == <<ot[1] % 256, ot[1] \div 256, ot[2] % 256, ot[2] \div 256>>
        key == Xor32(otid, pv)
        order == SUBSTRUCTURE_ORDERS[Mod32(pv, 24) + 1]
    IN  [a \in 0..(RecordSize - 1) |->
          IF a < 4 THEN pv[a + 1]
          ELSE IF a < 8 THEN otid[a - 3]
          ELSE IF a >= POKEMON_ENCRYPTED_OFFSET /\ a < POKEMON_ENCRYPTED_OFFSET + 48
            THEN LET r == a - POKEMON_ENCRYPTED_OFFSET
                     blk == PlainBlock(order[(r \div SUBSTRUCTURE_SIZE) + 1], pr)
                     w == blk[((r % SUBSTRUCTURE_SIZE) \div 4) + 1]
                 IN  Xor32(w, key)[(r % 4) + 1]
          ELSE IF a = POKEMON_STATUS_OFFSET THEN 8
          ELSE IF a = ENEMY_LEVEL_OFFSET THEN 5
          ELSE IF a = POKEMON_HP_OFFSET THEN 7
          ELSE IF a = POKEMON_MAX_HP_OFFSET THEN pr.max_hp
          ELSE 0]

Records == {MkRecord(pv, ot, pr) : pv \in PVs, ot \in OriginalTrainers, pr \in Profiles}

----------------------------------------------------------------------------
(* State machine: the emulator memory holds one record; each action is one *)
(* call of a codec operation on it and records the call's locals and       *)
(* return value.                                                           *)

Init ==
    /\ mem \in Records
    /\ op = "none"
    /\ arg = [none |-> TRUE]
    /\ loc = [none |-> TRUE]
    /\ ret = [none |-> TRUE]
    /\ hunter = Idle /\ route102 = Idle /\ farmer = Idle /\ shinies = Idle

\* order = get_substructure_order(pv) on the record's personality value
GetSubstructureOrder ==
    /\ op' = "get_substructure_order"
    /\ arg' = [pv |-> read_u32(mem, POKEMON_PV_OFFSET)]
    /\ loc' = [index |-> Mod32(read_u32(mem, POKEMON_PV_OFFSET), 24)]
    /\ ret' = [order |-> get_substructure_order(read_u32(mem, POKEMON_PV_OFFSET))]
    /\ UNCHANGED <<mem, progs>>

DecryptSpecies ==
    \E pokemon_species \in SpeciesTables :
      /\ op' = "decrypt_species"
      /\ arg' = [pokemon_species |-> pokemon_species]
      /\ \E r \in {decrypt_species(mem, pokemon_species)} :
           /\ loc' = r.loc
           /\ ret' = r.ret
      /\ UNCHANGED <<mem, progs>>

\* decrypt_ivs storing the decrypted IV word back in the record
DecryptIvs_in_place ==
    /\ op' = "decrypt_ivs"
    /\ arg' = [none |-> TRUE]
    /\ \E r \in {decrypt_ivs(mem)} :
         /\ loc' = r.loc
         /\ ret' = r.ret
         /\ mem' = IF read_u32(mem, POKEMON_PV_OFFSET) = Zero32 THEN mem
                   ELSE write_u32(mem, r.loc.iv_addr, r.loc.iv_data)
    /\ UNCHANGED progs

DecryptIvs ==
    /\ op' = "decrypt_ivs"
    /\ arg' = [none |-> TRUE]
    /\ \E r \in {decrypt_ivs(mem)} :
         /\ loc' = r.loc
         /\ ret' = r.ret
    /\ UNCHANGED <<mem, progs>>

\* calculate_shiny_value(TID, SID, pv) on the record's personality value
CalculateShinyValue ==
    \E t \in SaveTrainers :
      /\ op' = "calculate_shiny_value"
      /\ arg' = [tid |-> t[1], sid |-> t[2], pv |-> read_u32(mem, POKEMON_PV_OFFSET)]
      /\ loc' = [none |-> TRUE]
      /\ ret' = calculate_shiny_value(t[1], t[2], read_u32(mem, POKEMON_PV_OFFSET))
      /\ UNCHANGED <<mem, progs>>

CheckShiny ==
    \E t \in SaveTrainers :
      /\ op' = "check_shiny"
      /\ arg' = [tid |-> t[1], sid |-> t[2]]
      /\ loc' = [none |-> TRUE]
      /\ ret' = check_shiny(mem, t[1], t[2])
      /\ UNCHANGED <<mem, progs>>

ReadLevel ==
    /\ op' = "read_level"
    /\ arg' = [none |-> TRUE]
    /\ loc' = [none |-> TRUE]
    /\ ret' = [level |-> read_level(mem)]
    /\ UNCHANGED <<mem, progs>>

\* get_nature_from_pv(pv) on the record's personality value
GetNatureFromPv ==
    /\ op' = "get_nature_from_pv"
    /\ arg' = [pv |-> read_u32(mem, POKEMON_PV_OFFSET)]
    /\ loc' = [nature_index |-> Mod32(read_u32(mem, POKEMON_PV_OFFSET), 25)]
    /\ ret' = [nature |-> get_nature_from_pv(read_u32(mem, POKEMON_PV_OFFSET))]
    /\ UNCHANGED <<mem, progs>>

\* select_best_shinies: iv_data = decrypt_misc_substruct(..); extract_ivs; get_iv_total
SelectExtractIvs ==
    /\ op' = "extract_ivs"
    /\ arg' = [none |-> TRUE]
    /\ loc' = [iv_data |-> decrypt_misc_substruct(mem)]
    /\ ret' = [ivs |-> extract_ivs(decrypt_misc_substruct(mem)),
               iv_total |-> get_iv_total(extract_ivs(decrypt_misc_substruct(mem)))]
    /\ UNCHANGED <<mem, progs>>

HealPokemonAtAddress ==
    /\ op' = "heal_pokemon_at_address"
    /\ arg' = [none |-> TRUE]
    /\ \E h \in {heal_pokemon_at_address(mem)} :
         /\ mem' = h.mem
         /\ loc' = h.loc
         /\ ret' = [actions |-> h.ret]
    /\ UNCHANGED progs

DecryptSpeciesExtended ==
    \E pokemon_species \in SpeciesTables :
      /\ op' = "decrypt_species_extended"
      /\ arg' = [pokemon_species |-> pokemon_species]
      /\ loc' = [pv |-> read_u32(mem, POKEMON_PV_OFFSET)]
      /\ ret' = decrypt_species_extended(mem, pokemon_species)
      /\ UNCHANGED <<mem, progs>>

\* box_data = convert_party_to_box(read_bytes(core, address, length))
ConvertPartyToBox ==
    \E length \in BufferLengths :
      /\ op' = "convert_party_to_box"
      /\ arg' = [party_data |-> read_bytes(mem, length)]
      /\ loc' = [length |-> length]
      /\ ret' = [raised |-> FALSE, box |-> convert_party_to_box(read_bytes(mem, length))]
      /\ UNCHANGED <<mem, progs>>

Next ==
    \/ GetSubstructureOrder
    \/ DecryptSpecies
    \/ DecryptIvs
    \/ CalculateShinyValue
    \/ CheckShiny
    \/ ReadLevel
    \/ GetNatureFromPv
    \/ SelectExtractIvs
    \/ HealPokemonAtAddress
    \/ ConvertPartyToBox

Spec == Init /\ [][Next]_vars

----------------------------------------------------------------------------
(* The codec with the extended species search, over fewer records: the     *)
(* search tries up to 84 decodings per call.                               *)

\* personality values 0..MaxExtendedPv of the records of this specification
MaxExtendedPv == 5

ExtendedRecords ==
    {MkRecord(U32(n), ot, pr) : n \in 0..MaxExtendedPv, ot \in OriginalTrainers, pr \in Profiles}

InitExtended ==
    /\ mem \in ExtendedRecords
    /\ op = "none"
    /\ arg = [none |-> TRUE]
    /\ loc = [none |-> TRUE]
    /\ ret = [none |-> TRUE]
    /\ hunter = Idle /\ route102 = Idle /\ farmer = Idle /\ shinies = Idle

NextExtended ==
    \/ GetSubstructureOrder
    \/ DecryptSpecies
    \/ DecryptSpeciesExtended
    \/ DecryptIvs
    \/ CalculateShinyValue
    \/ CheckShiny
    \/ ReadLevel
    \/ GetNatureFromPv
    \/ HealPokemonAtAddress

SpecExtended == InitExtended /\ [][NextExtended]_vars

----------------------------------------------------------------------------
(* Properties *)

\* the record's personality value and the words the claims speak of
RecPv == read_u32(mem, POKEMON_PV_OFFSET)
Occupied == RecPv # Zero32
Tid16 == read_u16(mem, 4)
Sid16 == read_u16(mem, 6)

\* the table as the specification lists it, index 0..23
ListedOrders ==
    << <<"G","A","E","M">>, <<"G","A","M","E">>, <<"G","E","A","M">>, <<"G","E","M","A">>,
       <<"G","M","A","E">>, <<"G","M","E","A">>, <<"A","G","E","M">>, <<"A","G","M","E">>,
       <<"A","E","G","M">>, <<"A","E","M","G">>, <<"A","M","G","E">>, <<"A","M","E","G">>,
       <<"E","G","A","M">>, <<"E","G","M","A">>, <<"E","A","G","M">>, <<"E","A","M","G">>,
       <<"E","M","G","A">>, <<"E","M","A","G">>, <<"M","G","A","E">>, <<"M","G","E","A">>,
       <<"M","A","G","E">>, <<"M","A","E","G">>, <<"M","E","G","A">>, <<"M","E","A","G">> >>

\* C1: for every personality value, zero included, get_substructure_order
\* returns entry (pv mod 24) of the listed 24-entry table.
C1_OrderIsListedEntry ==
    op = "get_substructure_order" =>
        /\ loc.index \in 0..23
        /\ ret.order = ListedOrders[Mod32(arg.pv, 24) + 1]

\* 0xFFFFFFFF mod 24 = 15, entry EAMG
C1_Witness ==
    /\ op = "get_substructure_order"
    /\ arg.pv = <<255, 255, 255, 255>>
    /\ ret.order = <<"E","A","M","G">>

C3_RawSpeciesFromGrowth ==
    (op = "decrypt_species" /\ Occupied) =>
        LET p == IndexOf(get_substructure_order(RecPv), "G")
            key == Xor32(RecPv, <<mem[4], mem[5], 0, 0>>)
        IN  /\ p \in 0..3
            /\ loc.species_id = Low16(Xor32(read_u32(mem, 32 + 12 * p), key))

\* Growth is the last block (order MEAG), species 277
C3_Witness ==
    /\ op = "decrypt_species"
    /\ Occupied
    /\ IndexOf(get_substructure_order(RecPv), "G") = 3
    /\ loc.enc_addr = 68
    /\ loc.xor_key # Zero32
    /\ loc.species_id = 277

MiscIvWord ==
    Xor32(read_u32(mem, 32 + 12 * IndexOf(get_substructure_order(RecPv), "M") + 4),
          Xor32(RecPv, read_u32(mem, 4)))

\* a word with bits 30 and 31 cleared
Low30(w) == <<w[1], w[2], w[3], w[4] % 64>>

\* bits lo..lo+4 of w as a number
FiveBits(w, lo) ==
    BitOf(w, lo) + 2 * BitOf(w, lo + 1) + 4 * BitOf(w, lo + 2)
      + 8 * BitOf(w, lo + 3) + 16 * BitOf(w, lo + 4)

\* C5: the IV extractor returns the six 5-bit fields of the decrypted IV word
\* from bit 0 upwards and their sum; bits 30 and 31 change nothing.
C5_IvFields ==
    /\ (op = "decrypt_ivs" /\ Occupied) =>
          LET w == Low30(MiscIvWord) IN
          /\ ret.hp = FiveBits(w, 0)
          /\ ret.atk = FiveBits(w, 5)
          /\ ret.def = FiveBits(w, 10)
          /\ ret.spe = FiveBits(w, 15)
          /\ ret.spa = FiveBits(w, 20)
          /\ ret.spd = FiveBits(w, 25)
          /\ ret.total = FiveBits(w, 0) + FiveBits(w, 5) + FiveBits(w, 10)
                           + FiveBits(w, 15) + FiveBits(w, 20) + FiveBits(w, 25)
    /\ (op = "extract_ivs" /\ Occupied) =>
          LET w == Low30(MiscIvWord) IN
          /\ ret.ivs = [hp |-> FiveBits(w, 0), atk |-> FiveBits(w, 5),
                        def |-> FiveBits(w, 10), spe |-> FiveBits(w, 15),
                        spa |-> FiveBits(w, 20), spd |-> FiveBits(w, 25)]
          /\ ret.iv_total = FiveBits(w, 0) + FiveBits(w, 5) + FiveBits(w, 10)
                              + FiveBits(w, 15) + FiveBits(w, 20) + FiveBits(w, 25)

\* IV word 0xFE0F801F: bits 30 and 31 set, fields 31, 0, 0, 31, 0, 31
C5_Witness ==
    /\ op = "decrypt_ivs"
    /\ Occupied
    /\ MiscIvWord = <<31, 128, 15, 254>>
    /\ ret = [hp |-> 31, atk |-> 0, def |-> 0, spe |-> 31, spa |-> 0, spd |-> 31,
              total |-> 93]

\* C6: calculate_shiny_value reports shiny exactly when
\* (tid XOR sid) XOR (pv_low XOR pv_high) < 8; 7 is shiny, 8 is not.
C6_ShinyIffBelow8 ==
    op = "calculate_shiny_value" =>
        LET sv == XorN(XorN(arg.tid, arg.sid, 16),
                       XorN(Low16(arg.pv), High16(arg.pv), 16), 16)
        IN  /\ ret.shiny_value = sv
            /\ ret.is_shiny = (sv < 8)
            /\ sv = 7 => ret.is_shiny
            /\ sv = 8 => ~ret.is_shiny

\* 56078 ^ 24723 = 0xBB9D, pv = 0x0000BB9A: shiny value 7
C6_Witness ==
    /\ op = "calculate_shiny_value"
    /\ arg = [tid |-> 56078, sid |-> 24723, pv |-> U32(48026)]
    /\ ret.shiny_value = 7
    /\ ret.is_shiny

\* the outcomes that are not a normal result
IsNatureName(n) == \E i \in 1..25 : NATURE_NAMES[i] = n

C8_XorRoundTrip ==
    (op = "heal_pokemon_at_address" /\ Occupied) =>
        \A k \in 0..11 :
            /\ Xor32(read_u32(mem, WordAddr(k)), loc.xor_key) = loc.dec_data[k + 1]
            /\ Xor32(Xor32(loc.enc_data[k + 1], loc.xor_key), loc.xor_key) = loc.enc_data[k + 1]
            /\ k # loc.pp_word => read_u32(mem, WordAddr(k)) = loc.enc_data[k + 1]

\* a heal with a non-zero key that rewrote the PP word
C8_Witness ==
    /\ op = "heal_pokemon_at_address"
    /\ Occupied
    /\ ret.actions = <<"Healed">>
    /\ loc.xor_key = Xor32(U32(305419896), <<14, 219, 147, 96>>)
    /\ read_u32(mem, WordAddr(loc.pp_word)) # loc.enc_data[loc.pp_word + 1]

\* the worked example's inputs
C9_Inputs ==
    /\ op = "calculate_shiny_value"
    /\ arg = [tid |-> 56078, sid |-> 24723, pv |-> U32(305419896)]

\* C9 as stated: tid_xor_sid = 64517, pv_low = 22136, pv_high = 4660,
\* pv_xor = 17788, shiny_value = 64517 XOR 17788.
C9_WorkedExampleAsStated ==
    C9_Inputs =>
        /\ ret.details.tid_xor_sid = 64517
        /\ ret.details.pv_low = 22136
        /\ ret.details.pv_high = 4660
        /\ ret.details.pv_xor = 17788
        /\ ret.shiny_value = XorN(64517, 17788, 16)

\* C9 amended: tid_xor_sid = 56078 XOR 24723 = 48029 (0xBB9D), pv_low = 22136,
\* pv_high = 4660, pv_xor = 22136 XOR 4660 = 17484 and shiny_value =
\* 48029 XOR 17484 = 65489 (not shiny).
C9_WorkedExample ==
    C9_Inputs =>
        /\ ret.details.tid_xor_sid = 48029
        /\ ret.details.pv_low = 22136
        /\ ret.details.pv_high = 4660
        /\ ret.details.pv_xor = 17484
        /\ ret.shiny_value = 65489
        /\ ret.details.shiny_value = 65489
        /\ ~ret.is_shiny

C9_Witness == C9_Inputs /\ ret.details.pv_xor = 17484 /\ ret.shiny_value = 65489

\* a sequence that holds each of the four tags exactly once
IsPermutation(order) ==
    /\ Len(order) = 4
    /\ \A t \in {"G", "A", "E", "M"} : Cardinality({i \in 1..4 : order[i] = t}) = 1

\* C10: the 24 table entries are pairwise distinct permutations of G, A, E, M,
\* so get_substructure_order over pv = 0..23 yields 24 different permutations.
C10_TableIsAllPermutations ==
    /\ Len(SUBSTRUCTURE_ORDERS) = 24
    /\ \A i \in 1..24 : IsPermutation(SUBSTRUCTURE_ORDERS[i])
    /\ \A i, j \in 1..24 : i # j => SUBSTRUCTURE_ORDERS[i] # SUBSTRUCTURE_ORDERS[j]
    /\ Cardinality({get_substructure_order(U32(n)) : n \in 0..23}) = 24
    /\ op = "get_substructure_order" => IsPermutation(ret.order)

\* the last entry, pv = 23
C10_Witness ==
    /\ op = "get_substructure_order"
    /\ arg.pv = U32(23)
    /\ loc.index = 23
    /\ ret.order = <<"M","E","A","G">>

\* C11: each of the six values the IV extractor returns lies in 0..31 and the
\* total lies in 0..186, whatever the decrypted IV word is.
C11_IvRanges ==
    /\ (op = "decrypt_ivs" /\ Occupied) =>
          /\ \A f \in {"hp", "atk", "def", "spe", "spa", "spd"} : ret[f] \in 0..31
          /\ ret.total \in 0..186
    /\ op = "extract_ivs" =>
          /\ \A f \in {"hp", "atk", "def", "spe", "spa", "spd"} : ret.ivs[f] \in 0..31
          /\ ret.iv_total \in 0..186

\* IV word 0xFFFFFFFF: every field 31, total 186
C11_Witness ==
    /\ op = "decrypt_ivs"
    /\ Occupied
    /\ loc.iv_data = <<255, 255, 255, 255>>
    /\ ret.hp = 31
    /\ ret.spd = 31
    /\ ret.total = 186

\* C12 as stated: a buffer shorter than 80 bytes handed to the party-to-box
\* conversion raises InvalidBuffer and no converted value comes back.
C12_ShortBufferIsRejected ==
    (op = "convert_party_to_box" /\ loc.length < 80) =>
        /\ ret.raised
        /\ "box" \notin DOMAIN ret

\* C12 amended: no length is checked and nothing is raised:
\* convert_party_to_box on a buffer of n bytes returns its first min(n, 80)
\* bytes, so a buffer shorter than 80 bytes comes back whole; read_level takes
\* an emulator address, not a buffer, and returns 0 for an empty slot and the
\* byte at offset 0x54 otherwise.
C12_NoLengthCheck ==
    /\ op = "convert_party_to_box" =>
          LET n == IF loc.length < 80 THEN loc.length ELSE 80 IN
          /\ ~ret.raised
          /\ DOMAIN ret.box = 0..(n - 1)
          /\ \A i \in 0..(n - 1) : ret.box[i] = arg.party_data[i]
    /\ op = "read_level" =>
          ret.level = (IF Occupied THEN mem[84] ELSE 0)

\* a 60-byte buffer comes back as a 60-byte "box form"
C12_Witness ==
    /\ op = "convert_party_to_box"
    /\ loc.length = 60
    /\ ~ret.raised
    /\ DOMAIN ret.box = 0..59

\* the operations of the codec
CodecOps ==
    {"get_substructure_order", "decrypt_species", "decrypt_species_extended",
     "calculate_shiny_value", "check_shiny", "decrypt_ivs", "read_level",
     "get_nature_from_pv"}

\* C13: a call of a codec operation leaves every byte of the record and of
\* emulator memory as it was.
C13_CodecOnlyReads == [][op' \in CodecOps => mem' = mem]_vars

\* the extended search ran on a record the healer had rewritten before
C13_Witness ==
    /\ op = "decrypt_species_extended"
    /\ Occupied
    /\ read_u16(mem, POKEMON_HP_OFFSET) = 20
    /\ ret.species_id = 277

\* C14: for a 100-byte party record r, convert_party_to_box(r) is r[0..79],
\* species and IVs decoded from it equal those decoded from r, and every byte
\* the two decoders read lies below offset 80.
C14_BoxFormIsPrefix ==
    (op = "convert_party_to_box" /\ loc.length = 100) =>
        /\ DOMAIN ret.box = 0..79
        /\ \A i \in 0..79 : ret.box[i] = arg.party_data[i]
        /\ arg.party_data = mem
        /\ Occupied =>
              /\ BlockAddr(mem, "G") + 3 < 80
              /\ BlockAddr(mem, "M") + 4 + 3 < 80
        /\ \A t \in SpeciesTables :
              decrypt_species(ret.box, t).ret = decrypt_species(arg.party_data, t).ret
        /\ decrypt_ivs(ret.box).ret = decrypt_ivs(arg.party_data).ret

\* Misc is the last block: the IV word is read at bytes 72..75
C14_Witness ==
    /\ op = "convert_party_to_box"
    /\ loc.length = 100
    /\ Occupied
    /\ DOMAIN ret.box = 0..79
    /\ BlockAddr(mem, "M") = 68
    /\ decrypt_ivs(ret.box).ret.total = 186

----------------------------------------------------------------------------
(* src/src/hunt.py: WildShinyHunter, the flee-method hunter.  The enemy    *)
(* record of the emulator is mem; every call that runs frames lets the     *)
(* game replace it.                                                        *)

\* trainer ids of the save file
TID == 56078
SID == 24723

\* hunt(max_attempts=None, error_retry_limit=3)
error_retry_limit == 3

\* Python's None, where the other values are tuples
None == <<>>

\* encounter_sequence(max_turns=1000): the cycles tried before giving up
MaxTurns == 2

\* encounters counted before the model stops following a hunt
MaxAttempts == 2

\* ENEMY_SPECIES_ADDR - ENEMY_PV_ADDR
ENEMY_SPECIES_OFFSET == 8

\* get_route_species(102), two of its entries
base_species == [k \in {288, 392} |-> IF k = 288 THEN "Zigzagoon" ELSE "Ralts"]

\* build_extended_species_dict(base_species): ids >= 277 also under id - 25
build_extended_species_dict(base) ==
    LET fallbacks == {k - 25 : k \in {j \in DOMAIN base : j >= 277}} IN
    [k \in DOMAIN base \cup fallbacks |-> IF k \in fallbacks THEN base[k + 25] ELSE base[k]]

species_dict == build_extended_species_dict(base_species)

\* species_name_to_ids[name]
species_name_to_ids(name) == {k \in DOMAIN species_dict : species_dict[k] = name}

\* the test of a turn with the comparison to last_battle_pv left out
is_new_encounter_nonzero(pv, last_battle_pv) == pv # Zero32

\* pv != 0 and pv != self.last_battle_pv
is_new_encounter(pv, last_battle_pv) == pv # Zero32 /\ pv # last_battle_pv

\* get_pokemon_species(): the battle-structure id if the table lists it, else
\* the extended decryption
get_pokemon_species(m) ==
    LET species_id == read_u16(m, ENEMY_SPECIES_OFFSET) IN
    IF species_id \in DOMAIN species_dict
      THEN [species_id |-> species_id, name |-> [kind |-> "known", key |-> species_id]]
      ELSE decrypt_species_extended(m, DOMAIN species_dict)

\* the name printed and used for the save state's file name
SpeciesName(found) ==
    IF found.name.kind = "known" THEN species_dict[found.name.key] ELSE "Unknown"

\* save_game_state(core, dir, species_name, run_frames): the path written, or
\* None when writing raised
save_game_state(species_name, pv, written) ==
    IF written THEN <<species_name, pv>> ELSE None

\* plaintext contents of the wild creatures of the route
HuntProfiles ==
    { [species |-> 288, iv |-> <<255, 255, 255, 63>>, max_hp |-> 20],
      [species |-> 392, iv |-> <<120, 86, 52, 18>>,   max_hp |-> 20] }

\* the enemy records the game can present: none, shiny (value 7) and plain
\* (value 8) creatures of both species, and a plain Zigzagoon whose bytes at
\* the battle-structure species address spell 392
HuntRecords ==
    {MkRecord(Zero32, <<TID, SID>>, CHOOSE pr \in HuntProfiles : pr.species = 288)}
      \cup {MkRecord(pv, <<TID, SID>>, pr) : pv \in {U32(48026), U32(48021)}, pr \in HuntProfiles}
      \cup {[MkRecord(U32(48021), <<TID, SID>>, CHOOSE pr \in HuntProfiles : pr.species = 288)
               EXCEPT ![8] = 136, ![9] = 1]}

\* WildShinyHunter(location_id=102, target_species=...) before hunt() is
\* called; max_attempts = 0 stands for None.  pressed, pressed_before and
\* pressed_from record the history of the turn presses: the direction of the
\* latest press, of the one before it, and the value last_direction had
\* when the latest press was made.
InitHunt ==
    /\ mem \in {r \in HuntRecords : read_u32(r, POKEMON_PV_OFFSET) = Zero32}
    /\ op = "none"
    /\ arg = [none |-> TRUE]
    /\ loc = [none |-> TRUE]
    /\ ret = [none |-> TRUE]
    /\ route102 = Idle /\ farmer = Idle /\ shinies = Idle
    /\ \E target \in {"", "Ralts"}, max_attempts \in {0, MaxAttempts} :
         hunter = [pc |-> "constructed",
                   target_species_name |-> target,
                   target_species_ids |-> IF target = "" THEN DOMAIN species_dict
                                          ELSE species_name_to_ids(target),
                   max_attempts |-> max_attempts,
                   last_battle_pv |-> None,
                   last_direction |-> "none",
                   pressed |-> "none", pressed_before |-> "none",
                   pressed_from |-> "none",
                   attempts |-> 0,
                   consecutive_errors |-> 0,
                   turn_count |-> 0, start_with_right |-> FALSE, half |-> 1,
                   presses |-> 0, misses |-> 0, pv_read |-> None,
                   pokemon_found |-> FALSE,
                   species_id |-> 0, species_name |-> "", is_shiny |-> FALSE,
                   save_state_path |-> None,
                   result |-> FALSE, reason |-> ""]

\* the locals of one loop iteration, as they are before the iteration starts;
\* an iteration that ends leaves them unread, so they are put back to this
IterationLocals(h) ==
    [h EXCEPT !.turn_count = 0, !.start_with_right = FALSE, !.half = 1,
              !.presses = 0, !.misses = 0, !.pv_read = None, !.pokemon_found = FALSE,
              !.species_id = 0, !.species_name = "", !.is_shiny = FALSE,
              !.save_state_path = None]

\* return value of hunt
HuntReturn(h, value, why) == [h EXCEPT !.pc = "returned", !.result = value, !.reason = why]

\* hunt(): reset_to_save, RNG seed and the loading sequence
HuntStart ==
    /\ hunter.pc = "constructed"
    /\ \E loaded \in BOOLEAN, m \in HuntRecords :
         IF ~loaded
           THEN /\ hunter' = HuntReturn(hunter, FALSE, "initial_load")
                /\ UNCHANGED mem
           ELSE /\ hunter' = [hunter EXCEPT !.pc = "loop"]
                /\ mem' = m
    /\ UNCHANGED <<op, arg, loc, ret, route102, farmer, shinies>>

\* top of while True: the max_attempts test, then the entry of
\* encounter_sequence (keys cleared, turn_count = 0, first direction chosen)
HuntLoopTop ==
    /\ hunter.pc = "loop"
    /\ IF hunter.max_attempts # 0 /\ hunter.attempts >= hunter.max_attempts
         THEN hunter' = HuntReturn(hunter, FALSE, "max_attempts")
         ELSE /\ hunter.attempts < MaxAttempts
              /\ hunter' = [IterationLocals(hunter) EXCEPT
                               !.pc = "turn",
                               !.start_with_right = (hunter.last_direction = "left")]
    /\ UNCHANGED <<mem, op, arg, loc, ret, route102, farmer, shinies>>

\* the turn direction that ignores start_with_right: every cycle is left,
\* then right
turn_direction_left_first(start_with_right, half) ==
    IF half = 1 THEN "left" ELSE "right"

\* the direction of the first (half = 1) and second (half = 2) press of a
\* cycle of encounter_sequence
turn_direction(start_with_right, half) ==
    IF start_with_right = (half = 1) THEN "right" ELSE "left"

\* the history of the presses after a press in direction
Pressed(h, direction) ==
    [h EXCEPT !.pressed = direction,
              !.pressed_before = h.pressed,
              !.pressed_from = h.last_direction]

\* one press of encounter_sequence: press, wait, record the direction, read
\* the enemy personality value and test it
TurnPress ==
    /\ hunter.pc = "turn"
    /\ hunter.turn_count < MaxTurns
    /\ \E m \in HuntRecords :
         LET direction == turn_direction(hunter.start_with_right, hunter.half)
             pv == read_u32(m, POKEMON_PV_OFFSET)
             found == is_new_encounter(pv, hunter.last_battle_pv)
         IN  /\ mem' = m
             /\ hunter' = [Pressed(hunter, direction) EXCEPT
                             !.last_direction = direction,
                             !.pv_read = pv,
                             !.presses = @ + 1,
                             !.misses = IF found THEN @ ELSE @ + 1,
                             !.pokemon_found = found,
                             !.pc = IF found THEN "encounter_done" ELSE "turn",
                             !.half = IF found THEN @ ELSE 3 - @,
                             !.turn_count = IF ~found /\ hunter.half = 2 THEN @ + 1 ELSE @]
    /\ UNCHANGED <<op, arg, loc, ret, route102, farmer, shinies>>

\* while turn_count < max_turns fails: return False
EncounterGiveUp ==
    /\ hunter.pc = "turn"
    /\ hunter.turn_count >= MaxTurns
    /\ hunter' = [hunter EXCEPT !.pokemon_found = FALSE, !.pc = "encounter_done"]
    /\ UNCHANGED <<mem, op, arg, loc, ret, route102, farmer, shinies>>

\* ProcessEncounter without the target filter: any shiny ends the hunt
ProcessEncounter_any_shiny(h, pv, found, shiny, written) ==
    LET counted == [h EXCEPT !.attempts = @ + 1, !.consecutive_errors = 0]
        seen == [counted EXCEPT !.species_id = found.species_id,
                                !.species_name = SpeciesName(found),
                                !.is_shiny = shiny.is_shiny]
        saved == [seen EXCEPT !.save_state_path =
                                 save_game_state(SpeciesName(found), shiny.pv, written)]
    IN  IF pv = Zero32 THEN [IterationLocals(h) EXCEPT !.pc = "loop"]
        ELSE IF shiny.is_shiny THEN HuntReturn(saved, TRUE, "shiny")
        ELSE [seen EXCEPT !.pc = "flee"]

\* the rest of an iteration once encounter_sequence has returned: the
\* re-read of the personality value, the attempt count, the species, the
\* target filter, the shiny test, the notifications and the save state
ProcessEncounter(h, pv, found, shiny, written) ==
    LET counted == [h EXCEPT !.attempts = @ + 1, !.consecutive_errors = 0]
        seen == [counted EXCEPT !.species_id = found.species_id,
                                !.species_name = SpeciesName(found),
                                !.is_shiny = shiny.is_shiny]
        saved == [seen EXCEPT !.save_state_path =
                                 save_game_state(SpeciesName(found), shiny.pv, written)]
    IN  IF pv = Zero32 THEN [IterationLocals(h) EXCEPT !.pc = "loop"]
        ELSE IF h.target_species_name # "" /\ found.species_id \notin h.target_species_ids
          THEN IF shiny.is_shiny THEN [saved EXCEPT !.pc = "flee"]
               ELSE [seen EXCEPT !.pc = "flee"]
        ELSE IF shiny.is_shiny THEN HuntReturn(saved, TRUE, "shiny")
        ELSE [seen EXCEPT !.pc = "flee"]

HuntAfterEncounter ==
    /\ hunter.pc = "encounter_done"
    /\ IF ~hunter.pokemon_found
         THEN /\ hunter' = [IterationLocals(hunter) EXCEPT !.pc = "loop"]
              /\ UNCHANGED mem
         ELSE \E m \in HuntRecords, written \in BOOLEAN :
                /\ mem' = m
                /\ \E found \in {get_pokemon_species(m)}, shiny \in {check_shiny(m, TID, SID)} :
                     hunter' = ProcessEncounter(hunter, read_u32(m, POKEMON_PV_OFFSET),
                                                found, shiny, written)
    /\ UNCHANGED <<op, arg, loc, ret, route102, farmer, shinies>>

\* flee_sequence(): the button presses, then last_battle_pv is read back
FleeSequence ==
    /\ hunter.pc = "flee"
    /\ \E m \in HuntRecords :
         /\ mem' = m
         /\ hunter' = [IterationLocals(hunter) EXCEPT
                         !.last_battle_pv = read_u32(m, POKEMON_PV_OFFSET),
                         !.pc = "loop"]
    /\ UNCHANGED <<op, arg, loc, ret, route102, farmer, shinies>>

\* except Exception: an emulator call inside the try block raised; counted
\* tells whether the attempt had been counted (and the error count reset)
\* before it did, lost whether it was the run_frames of a turn press, after
\* the key was set and before last_direction was assigned
HuntRaise ==
    /\ hunter.pc \in {"turn", "encounter_done", "flee"}
    /\ \E counted \in BOOLEAN, lost \in BOOLEAN, recovered \in BOOLEAN, m \in HuntRecords :
         /\ counted => hunter.pc = "encounter_done" /\ hunter.pokemon_found
         /\ lost => hunter.pc = "turn" /\ hunter.turn_count < MaxTurns
         /\ LET errors == IF counted THEN 1 ELSE hunter.consecutive_errors + 1
                g == IF lost
                       THEN Pressed(hunter, turn_direction(hunter.start_with_right, hunter.half))
                       ELSE hunter
                h == [g EXCEPT !.consecutive_errors = errors,
                               !.attempts = IF counted THEN @ + 1 ELSE @]
            IN  IF errors >= error_retry_limit
                  THEN hunter' = HuntReturn(h, FALSE, "retry_limit") /\ UNCHANGED mem
                ELSE IF ~recovered
                  THEN hunter' = HuntReturn(h, FALSE, "recovery_failed") /\ UNCHANGED mem
                ELSE hunter' = [IterationLocals(h) EXCEPT !.pc = "loop"] /\ mem' = m
    /\ UNCHANGED <<op, arg, loc, ret, route102, farmer, shinies>>

NextHunt ==
    \/ HuntStart
    \/ HuntLoopTop
    \/ TurnPress
    \/ EncounterGiveUp
    \/ HuntAfterEncounter
    \/ FleeSequence
    \/ HuntRaise

SpecHunt == InitHunt /\ [][NextHunt]_vars

\* C15: with a target set, a shiny encounter of another species has its save
\* state written before flee_sequence runs for it, and the hunt goes on (it
\* has not returned).
C15_NonTargetShinySavedBeforeFlee ==
    (/\ hunter.pc = "flee"
     /\ hunter.target_species_name # ""
     /\ hunter.species_id \notin hunter.target_species_ids
     /\ hunter.is_shiny)
       => hunter.save_state_path # None

\* C18: encounter_sequence returns True only right after a read of the enemy
\* personality value that is non-zero and differs from last_battle_pv, and
\* False only after max_turns full cycles (two presses each) whose reads all
\* failed that test.
C18_EncounterSequenceResult ==
    hunter.pc = "encounter_done" =>
        /\ hunter.pokemon_found =>
              /\ hunter.pv_read = read_u32(mem, POKEMON_PV_OFFSET)
              /\ hunter.pv_read # Zero32
              /\ hunter.pv_read # hunter.last_battle_pv
        /\ ~hunter.pokemon_found =>
              /\ hunter.turn_count = MaxTurns
              /\ hunter.presses = 2 * MaxTurns
              /\ hunter.misses = hunter.presses
              /\ hunter.pv_read = Zero32 \/ hunter.pv_read = hunter.last_battle_pv

\* found after an earlier read of this call was rejected, a previous
\* flee_sequence having recorded a non-zero value
C18_Witness ==
    /\ hunter.pc = "encounter_done"
    /\ hunter.pokemon_found
    /\ hunter.misses >= 1
    /\ hunter.last_battle_pv \notin {None, Zero32}

\* the encounter in memory is one hunt stops for: check_shiny reports it
\* shiny and no target is set or its decoded species is a target id
WantedShiny ==
    /\ check_shiny(mem, TID, SID).is_shiny
    /\ \/ hunter.target_species_name = ""
       \/ get_pokemon_species(mem).species_id \in hunter.target_species_ids

\* C22: hunt returns True only for an encounter that check_shiny reported
\* shiny and whose species is a target (or no target is set), and
\* flee_sequence is never entered for such an encounter.
C22_TrueOnlyForWantedShiny ==
    /\ (hunter.pc = "returned" /\ hunter.result) =>
          /\ hunter.reason = "shiny"
          /\ hunter.is_shiny
          /\ WantedShiny
    /\ hunter.pc = "flee" => ~WantedShiny

C22_Witness ==
    /\ hunter.pc = "returned"
    /\ hunter.result
    /\ hunter.target_species_name = "Ralts"
    /\ hunter.species_id \in hunter.target_species_ids
    /\ hunter.attempts >= 2

----------------------------------------------------------------------------
(* src/src/route102.py: ShinyHunter.hunt, one action per loop iteration.   *)
(* What an iteration finds in the emulator (whether a creature appeared,   *)
(* its species, whether it is shiny) is an input of the iteration.         *)

\* hunt(max_attempts=None, error_retry_limit=3)
route102_error_retry_limit == 3

\* encounters counted before the model stops following a Route 102 hunt
MaxRouteAttempts == 3

\* POKEMON_SPECIES ids an iteration can decode, 0 when decoding fails
Route102SpeciesIds == {0, 288, 392}

\* ShinyHunter(target_species=...) before hunt() is called; max_attempts = 0
\* stands for None.  raised_in_a_row and last record the history of the loop:
\* how many iterations in a row have raised, and how the last one ended.
InitRoute102 ==
    /\ mem \in {r \in HuntRecords : read_u32(r, POKEMON_PV_OFFSET) = Zero32}
    /\ op = "none"
    /\ arg = [none |-> TRUE]
    /\ loc = [none |-> TRUE]
    /\ ret = [none |-> TRUE]
    /\ hunter = Idle /\ farmer = Idle /\ shinies = Idle
    /\ \E target \in {"", "Ralts"}, max_attempts \in {0, MaxRouteAttempts} :
         route102 = [pc |-> "constructed",
                     target_species_name |-> target,
                     target_species_ids |-> IF target = "" THEN {288, 392} ELSE {392},
                     max_attempts |-> max_attempts,
                     attempts |-> 0,
                     consecutive_errors |-> 0,
                     raised_in_a_row |-> 0,
                     last |-> "",
                     result |-> FALSE, reason |-> ""]

Route102Return(h, value, why) == [h EXCEPT !.pc = "returned", !.result = value, !.reason = why]

\* hunt(): consecutive_errors = 0, reset_to_save, RNG seed, loading sequence
Route102Start ==
    /\ route102.pc = "constructed"
    /\ \E loaded \in BOOLEAN :
         route102' = IF loaded THEN [route102 EXCEPT !.pc = "loop"]
                     ELSE Route102Return(route102, FALSE, "initial_load")
    /\ UNCHANGED <<mem, op, arg, loc, ret, hunter, farmer, shinies>>

\* one iteration of while True that raises nothing
Route102Iteration ==
    /\ route102.pc = "loop"
    /\ IF route102.max_attempts # 0 /\ route102.attempts >= route102.max_attempts
         THEN route102' = Route102Return(route102, FALSE, "max_attempts")
         ELSE /\ route102.attempts < MaxRouteAttempts
              /\ \E pokemon_found \in BOOLEAN, pv_is_zero \in BOOLEAN,
                    species_id \in Route102SpeciesIds, is_shiny \in BOOLEAN :
                   LET quiet == [route102 EXCEPT !.raised_in_a_row = 0]
                       counted == [quiet EXCEPT !.attempts = @ + 1]
                   IN  route102' =
                         IF ~pokemon_found THEN [quiet EXCEPT !.last = "no_encounter"]
                         ELSE IF pv_is_zero THEN [quiet EXCEPT !.last = "pv_zero"]
                         ELSE IF route102.target_species_name # ""
                                 /\ species_id \notin route102.target_species_ids
                           THEN [counted EXCEPT !.last = "processed"]
                         ELSE IF is_shiny THEN Route102Return(counted, TRUE, "shiny")
                         ELSE [counted EXCEPT !.last = "processed"]
    /\ UNCHANGED <<mem, op, arg, loc, ret, hunter, farmer, shinies>>

\* one iteration in which a call inside the try block raises: the handler
\* counts the error, gives up at the limit, otherwise resets and goes on;
\* counted tells whether the attempt had been counted before the exception
Route102Raise ==
    /\ route102.pc = "loop"
    /\ ~(route102.max_attempts # 0 /\ route102.attempts >= route102.max_attempts)
    /\ route102.attempts < MaxRouteAttempts
    /\ \E counted \in BOOLEAN, recovered \in BOOLEAN :
         LET h == [route102 EXCEPT !.consecutive_errors = @ + 1,
                                   !.raised_in_a_row = @ + 1,
                                   !.attempts = IF counted THEN @ + 1 ELSE @,
                                   !.last = "raised"]
         IN  route102' =
               IF h.consecutive_errors >= route102_error_retry_limit
                 THEN Route102Return(h, FALSE, "retry_limit")
               ELSE IF ~recovered THEN Route102Return(h, FALSE, "recovery_failed")
               ELSE h
    /\ UNCHANGED <<mem, op, arg, loc, ret, hunter, farmer, shinies>>

NextRoute102 ==
    \/ Route102Start
    \/ Route102Iteration
    \/ Route102Raise

SpecRoute102 == InitRoute102 /\ [][NextRoute102]_vars

\* C16: hunt gives up at the error limit only when error_retry_limit
\* iterations in a row raised, and an iteration that processes an encounter
\* without raising leaves the error count at zero.
C16_ErrorCountIsConsecutive ==
    /\ (route102.pc = "returned" /\ route102.reason = "retry_limit")
          => route102.raised_in_a_row >= route102_error_retry_limit
    /\ (route102.pc = "loop" /\ route102.last = "processed")
          => route102.consecutive_errors = 0

----------------------------------------------------------------------------
(* src/src/battle.py: XPFarmer.wait_for_turn_end and skip_move_learning.   *)
(* Here mem holds the four game cells the two methods read: the enemy's    *)
(* battle HP, gBattleOutcome, gBattleTypeFlags and gMoveToLearn.           *)

BATTLE_OUTCOME_PLAYER_TELEPORTED == 5
BATTLE_OUTCOME_MON_FLED == 6

\* wait_for_turn_end(max_frames=2000)
DEFAULT_MAX_FRAMES == 2000

\* frames run per poll of wait_for_turn_end
POLL_FRAMES == 30

\* frames after which wait_for_turn_end assumes the battle menu is back
MENU_FRAMES == 600

\* attempts of the decline sequence in skip_move_learning
SKIP_ATTEMPTS == 2

\* max_frames arguments of the calls
MaxFramesArgs == {DEFAULT_MAX_FRAMES, 600, 570, 90, 0}

\* contents of the game cells
FarmerMemories ==
    [enemy_hp : {0, 12},
     G_BATTLE_OUTCOME : {0, BATTLE_OUTCOME_PLAYER_TELEPORTED, BATTLE_OUTCOME_MON_FLED},
     G_BATTLE_TYPE_FLAGS : {0, 4},
     G_MOVE_TO_LEARN : {0, 33, 45}]

is_in_battle(m) == m.G_BATTLE_TYPE_FLAGS # 0

is_enemy_fainted(m) == m.enemy_hp = 0

check_battle_ended_early(m) ==
    m.G_BATTLE_OUTCOME \in {BATTLE_OUTCOME_MON_FLED, BATTLE_OUTCOME_PLAYER_TELEPORTED}

\* an XPFarmer in a battle, no method running
InitFarmer ==
    /\ mem \in FarmerMemories
    /\ op = "none"
    /\ arg = [none |-> TRUE]
    /\ loc = [none |-> TRUE]
    /\ ret = [none |-> TRUE]
    /\ hunter = Idle /\ route102 = Idle /\ shinies = Idle
    /\ \E handled \in {{}, {33}} :
         farmer = [pc |-> "ready", method |-> "",
                   current_state |-> "BATTLE_ACTIVE",
                   handled_moves_this_battle |-> handled,
                   moves_declined_count |-> 0,
                   max_frames |-> 0, frames_waited |-> 0, event |-> "none",
                   move_to_learn |-> 0, attempt |-> 0,
                   ret |-> FALSE, why |-> ""]

FarmerReturn(f, value, why) == [f EXCEPT !.pc = "returned", !.ret = value, !.why = why]

\* wait_for_turn_end(max_frames): frames_waited = 0
CallWaitForTurnEnd ==
    /\ farmer.pc = "ready"
    /\ \E max_frames \in MaxFramesArgs :
         farmer' = [farmer EXCEPT !.pc = "waiting", !.method = "wait_for_turn_end",
                                  !.max_frames = max_frames, !.frames_waited = 0]
    /\ UNCHANGED <<mem, op, arg, loc, ret, hunter, route102, shinies>>

\* the poll without the battle-menu heuristic
WaitPoll_until_max_frames ==
    /\ farmer.pc = "waiting"
    /\ farmer.frames_waited < farmer.max_frames
    /\ \E m \in FarmerMemories :
         LET waited == [farmer EXCEPT !.frames_waited = @ + POLL_FRAMES] IN
         /\ mem' = m
         /\ farmer' =
              IF is_enemy_fainted(m)
                THEN FarmerReturn([waited EXCEPT !.event = "fainted"], TRUE, "fainted")
              ELSE IF check_battle_ended_early(m)
                THEN FarmerReturn([waited EXCEPT !.event = "ended_early"], TRUE, "ended_early")
              ELSE waited
    /\ UNCHANGED <<op, arg, loc, ret, hunter, route102, shinies>>

\* one pass of while frames_waited < max_frames: run 30 frames, then the
\* three tests
WaitPoll ==
    /\ farmer.pc = "waiting"
    /\ farmer.frames_waited < farmer.max_frames
    /\ \E m \in FarmerMemories :
         LET waited == [farmer EXCEPT !.frames_waited = @ + POLL_FRAMES] IN
         /\ mem' = m
         /\ farmer' =
              IF is_enemy_fainted(m)
                THEN FarmerReturn([waited EXCEPT !.event = "fainted"], TRUE, "fainted")
              ELSE IF check_battle_ended_early(m)
                THEN FarmerReturn([waited EXCEPT !.event = "ended_early"], TRUE, "ended_early")
              ELSE IF waited.frames_waited >= MENU_FRAMES
                THEN FarmerReturn(waited, TRUE, "assumed_menu")
              ELSE waited
    /\ UNCHANGED <<op, arg, loc, ret, hunter, route102, shinies>>

\* the loop condition fails: return False
WaitTimeout ==
    /\ farmer.pc = "waiting"
    /\ farmer.frames_waited >= farmer.max_frames
    /\ farmer' = FarmerReturn(farmer, FALSE, "timeout")
    /\ UNCHANGED <<mem, op, arg, loc, ret, hunter, route102, shinies>>

\* skip_move_learning(): entry, up to the for loop
CallSkipMoveLearning ==
    /\ farmer.pc = "ready"
    /\ LET move_to_learn == mem.G_MOVE_TO_LEARN
           called == [farmer EXCEPT !.method = "skip_move_learning",
                                    !.move_to_learn = move_to_learn]
       IN  farmer' =
             IF move_to_learn = 0 THEN FarmerReturn(called, TRUE, "no_prompt")
             ELSE IF move_to_learn \in farmer.handled_moves_this_battle
               THEN FarmerReturn(called, TRUE, "already_handled")
             ELSE [called EXCEPT !.current_state = "MOVE_LEARNING",
                                 !.attempt = 0, !.pc = "press_b"]
    /\ UNCHANGED <<mem, op, arg, loc, ret, hunter, route102, shinies>>

\* the flag read 0 after a step: count the move as declined and return True
SkipCleared(f, why) ==
    FarmerReturn([f EXCEPT !.moves_declined_count = @ + 1,
                           !.handled_moves_this_battle = @ \cup {f.move_to_learn}],
                 TRUE, why)

\* top of an attempt: the in-battle check, then B and 60 frames
SkipPressB ==
    /\ farmer.pc = "press_b"
    /\ IF ~is_in_battle(mem)
         THEN /\ farmer' = FarmerReturn(farmer, TRUE, "battle_ended")
              /\ UNCHANGED mem
         ELSE \E m \in FarmerMemories :
                /\ mem' = m
                /\ farmer' = IF m.G_MOVE_TO_LEARN = 0 THEN SkipCleared(farmer, "cleared_after_b")
                             ELSE [farmer EXCEPT !.pc = "press_up_a"]
    /\ UNCHANGED <<op, arg, loc, ret, hunter, route102, shinies>>

\* UP, A and 80 frames
SkipPressUpA ==
    /\ farmer.pc = "press_up_a"
    /\ \E m \in FarmerMemories :
         /\ mem' = m
         /\ farmer' = IF m.G_MOVE_TO_LEARN = 0 THEN SkipCleared(farmer, "cleared_after_up_a")
                      ELSE [farmer EXCEPT !.pc = "press_a"]
    /\ UNCHANGED <<op, arg, loc, ret, hunter, route102, shinies>>

\* A and 80 frames; the attempt ends
SkipPressA ==
    /\ farmer.pc = "press_a"
    /\ \E m \in FarmerMemories :
         /\ mem' = m
         /\ farmer' = IF m.G_MOVE_TO_LEARN = 0 THEN SkipCleared(farmer, "cleared_after_a")
                      ELSE IF farmer.attempt + 1 < SKIP_ATTEMPTS
                        THEN [farmer EXCEPT !.attempt = @ + 1, !.pc = "press_b"]
                      ELSE [farmer EXCEPT !.attempt = @ + 1, !.pc = "force_clear"]
    /\ UNCHANGED <<op, arg, loc, ret, hunter, route102, shinies>>

\* after the attempts: write 0 to gMoveToLearn (the write may raise, which is
\* caught), remember the move, return True
SkipForceClear ==
    /\ farmer.pc = "force_clear"
    /\ \E written \in BOOLEAN :
         mem' = IF written THEN [mem EXCEPT !.G_MOVE_TO_LEARN = 0] ELSE mem
    /\ farmer' = FarmerReturn([farmer EXCEPT !.handled_moves_this_battle =
                                                 @ \cup {farmer.move_to_learn}],
                              TRUE, "forced")
    /\ UNCHANGED <<op, arg, loc, ret, hunter, route102, shinies>>

NextFarmer ==
    \/ CallWaitForTurnEnd
    \/ WaitPoll
    \/ WaitTimeout
    \/ CallSkipMoveLearning
    \/ SkipPressB
    \/ SkipPressUpA
    \/ SkipPressA
    \/ SkipForceClear

SpecFarmer == InitFarmer /\ [][NextFarmer]_vars

\* C19: skip_move_learning returns True when gMoveToLearn is clear and False
\* when it is stuck: still non-zero with the battle still active.
C19_FalseWhenStuck ==
    (farmer.pc = "returned" /\ farmer.method = "skip_move_learning") =>
        /\ mem.G_MOVE_TO_LEARN = 0 => farmer.ret
        /\ (mem.G_MOVE_TO_LEARN # 0 /\ is_in_battle(mem)) => ~farmer.ret

\* C20 as stated: wait_for_turn_end returns True exactly when a poll saw the
\* enemy fainted or the battle ended early, and False otherwise, once
\* max_frames frames have been waited.
C20_TrueOnlyOnEvent ==
    (farmer.pc = "returned" /\ farmer.method = "wait_for_turn_end") =>
        /\ farmer.ret = (farmer.event # "none")
        /\ ~farmer.ret => farmer.frames_waited >= farmer.max_frames

\* C20 amended: True when a poll saw the enemy fainted or the battle ended
\* early, and also once 600 frames have been waited without either; False
\* only when max_frames frames were waited before that, so never with the
\* default max_frames of 2000.
C20_TrueOnEventOrAfterMenuFrames ==
    (farmer.pc = "returned" /\ farmer.method = "wait_for_turn_end") =>
        /\ farmer.ret => (farmer.event # "none" \/ farmer.frames_waited >= MENU_FRAMES)
        /\ (farmer.event # "none" \/ farmer.frames_waited >= MENU_FRAMES) => farmer.ret
        /\ ~farmer.ret =>
              /\ farmer.frames_waited >= farmer.max_frames
              /\ farmer.max_frames <= MENU_FRAMES - POLL_FRAMES
        /\ farmer.max_frames = DEFAULT_MAX_FRAMES => farmer.ret
        /\ farmer.frames_waited <= MENU_FRAMES

\* the default call returns True after 600 frames with no event seen
C20_Witness ==
    /\ farmer.pc = "returned"
    /\ farmer.method = "wait_for_turn_end"
    /\ farmer.max_frames = DEFAULT_MAX_FRAMES
    /\ farmer.ret
    /\ farmer.event = "none"
    /\ farmer.frames_waited = 600
    /\ ~is_enemy_fainted(mem) /\ ~check_battle_ended_early(mem)

----------------------------------------------------------------------------
(* src/src/debug/select_best_shinies.py: select_best_shinies().  The boxes *)
(* are a row of slots; a slot holds what the scan decodes from its 80      *)
(* bytes: the personality value (0 when empty), the species name and the   *)
(* decrypted IV word.  A slot's address is its index.                      *)

\* slots of the boxes (NUM_BOXES * POKEMON_PER_BOX in the game)
MaxSlots == 5

\* Pokemon kept per species
KEEP_PER_SPECIES == 3

\* species names in the boxes, in Python's string order
SelectSpeciesNames == <<"Ralts", "Seedot">>

\* a < b on species names
NameBefore(a, b) ==
    (CHOOSE i \in 1..Len(SelectSpeciesNames) : SelectSpeciesNames[i] = a)
      < (CHOOSE i \in 1..Len(SelectSpeciesNames) : SelectSpeciesNames[i] = b)

\* decrypted IV words in the boxes: totals 186, 0 and 84
SelectIvWords == {<<255, 255, 255, 63>>, Zero32, <<120, 86, 52, 18>>}

EmptySlot == [pv |-> 0, species_name |-> "", iv_data |-> Zero32]

BoxSlots ==
    {EmptySlot} \cup [pv : {1}, species_name : {"Ralts", "Seedot"}, iv_data : SelectIvWords]

\* what the user types at a prompt
RawAnswers == {"y", " Y ", "n", "yes", ""}

\* input(...).strip().lower()
StripLower(raw) ==
    CASE raw = "y" -> "y"
      [] raw = " Y " -> "y"
      [] raw = "n" -> "n"
      [] raw = "yes" -> "yes"
      [] OTHER -> ""

\* the group sorted by IV total without reverse=True
sorted_by_iv_total_ascending(group) ==
    LET position == [i \in 1..Len(group) |->
                       1 + Cardinality({j \in 1..Len(group) :
                                          \/ group[j].iv_total < group[i].iv_total
                                          \/ (group[j].iv_total = group[i].iv_total /\ j < i)})]
    IN  [k \in 1..Len(group) |-> group[CHOOSE i \in 1..Len(group) : position[i] = k]]

\* sorted(group, key=lambda x: x['iv_total'], reverse=True): stable, members
\* of equal total stay in list order
sorted_by_iv_total(group) ==
    LET position == [i \in 1..Len(group) |->
                       1 + Cardinality({j \in 1..Len(group) :
                                          \/ group[j].iv_total > group[i].iv_total
                                          \/ (group[j].iv_total = group[i].iv_total /\ j < i)})]
    IN  [k \in 1..Len(group) |-> group[CHOOSE i \in 1..Len(group) : position[i] = k]]

\* key=lambda x: (x['species_name'], -x['iv_total']): a's key is below b's
BySpeciesThenIvTotal(a, b) ==
    \/ NameBefore(a.species_name, b.species_name)
    \/ (a.species_name = b.species_name /\ a.iv_total > b.iv_total)

\* sorted(pokemon_with_data, key=...): stable
sorted_by_species_then_iv_total(pokemon) ==
    LET position == [i \in 1..Len(pokemon) |->
                       1 + Cardinality({j \in 1..Len(pokemon) :
                                          \/ BySpeciesThenIvTotal(pokemon[j], pokemon[i])
                                          \/ (/\ ~BySpeciesThenIvTotal(pokemon[i], pokemon[j])
                                              /\ j < i)})]
    IN  [k \in 1..Len(pokemon) |-> pokemon[CHOOSE i \in 1..Len(pokemon) : position[i] = k]]

\* scan_boxes_with_ivs: the occupied slots in address order
scan_boxes_with_ivs(boxes) ==
    LET occupied == SelectSeq([k \in 1..Len(boxes) |-> k], LAMBDA k : boxes[k].pv # 0)
    IN  [i \in 1..Len(occupied) |->
           [addr |-> occupied[i],
            species_name |-> boxes[occupied[i]].species_name,
            pv |-> boxes[occupied[i]].pv,
            iv_data |-> boxes[occupied[i]].iv_data,
            iv_total |-> get_iv_total(extract_ivs(boxes[occupied[i]].iv_data))]]

\* species_groups[species_name]
SpeciesGroup(pokemon_list, species_name) ==
    SelectSeq(pokemon_list, LAMBDA p : p.species_name = species_name)

\* sorted(species_groups.items()): the names that have a group, in order
GroupNames(pokemon_list) ==
    SelectSeq(SelectSpeciesNames, LAMBDA n : SpeciesGroup(pokemon_list, n) # <<>>)

\* reorganize_boxes: every slot cleared, then the kept Pokemon written from
\* the first slot on in the order of (species name, IV total descending)
reorganize_boxes(boxes, pokemon_list) ==
    LET sorted_pokemon == sorted_by_species_then_iv_total(pokemon_list) IN
    [k \in 1..Len(boxes) |->
       IF k <= Len(sorted_pokemon)
         THEN [pv |-> sorted_pokemon[k].pv,
               species_name |-> sorted_pokemon[k].species_name,
               iv_data |-> sorted_pokemon[k].iv_data]
         ELSE EmptySlot]

\* the emulator with base_with_boxes.ss0 loaded, before the scan
InitSelect ==
    /\ mem \in {r \in HuntRecords : read_u32(r, POKEMON_PV_OFFSET) = Zero32}
    /\ op = "none"
    /\ arg = [none |-> TRUE]
    /\ loc = [none |-> TRUE]
    /\ ret = [none |-> TRUE]
    /\ hunter = Idle /\ route102 = Idle /\ farmer = Idle
    /\ \E boxes \in [1..MaxSlots -> BoxSlots] :
         shinies = [pc |-> "loaded",
                    boxes |-> boxes,
                    pokemon_list |-> <<>>,
                    remaining |-> <<>>,
                    answers |-> [n \in {"Ralts", "Seedot"} |-> "unasked"],
                    to_delete |-> <<>>,
                    pokemon_to_keep |-> <<>>,
                    outcome |-> ""]

\* the scan and the grouping by species name
SelectScan ==
    /\ shinies.pc = "loaded"
    /\ \E pokemon_list \in {scan_boxes_with_ivs(shinies.boxes)} :
         shinies' = IF pokemon_list = <<>>
                      THEN [shinies EXCEPT !.pc = "done", !.outcome = "no_pokemon"]
                      ELSE [shinies EXCEPT !.pc = "species",
                                           !.pokemon_list = pokemon_list,
                                           !.remaining = GroupNames(pokemon_list)]
    /\ UNCHANGED <<mem, op, arg, loc, ret, hunter, route102, farmer>>

\* one pass of for species_name, group in sorted(species_groups.items())
SelectSpecies ==
    /\ shinies.pc = "species"
    /\ shinies.remaining # <<>>
    /\ LET species_name == Head(shinies.remaining)
           group == SpeciesGroup(shinies.pokemon_list, species_name)
           next == [shinies EXCEPT !.remaining = Tail(@)]
       IN  IF Len(group) > KEEP_PER_SPECIES
             THEN \E raw \in RawAnswers, sorted_group \in {sorted_by_iv_total(group)} :
                    LET response == StripLower(raw)
                        delete_candidates ==
                          SubSeq(sorted_group, KEEP_PER_SPECIES + 1, Len(sorted_group))
                        asked == [next EXCEPT !.answers[species_name] = response]
                    IN  shinies' = IF response = "y"
                                     THEN [asked EXCEPT !.to_delete = @ \o delete_candidates]
                                     ELSE asked
             ELSE shinies' = next
    /\ UNCHANGED <<mem, op, arg, loc, ret, hunter, route102, farmer>>

\* after the loop: the list to keep, the last prompt, and on 'y' the
\* reorganised boxes and the new save state
SelectFinish ==
    /\ shinies.pc = "species"
    /\ shinies.remaining = <<>>
    /\ \E raw \in RawAnswers :
         LET delete_addrs == {shinies.to_delete[i].addr : i \in 1..Len(shinies.to_delete)}
             pokemon_to_keep == SelectSeq(shinies.pokemon_list,
                                          LAMBDA p : p.addr \notin delete_addrs)
             kept == [shinies EXCEPT !.pc = "done", !.pokemon_to_keep = pokemon_to_keep]
         IN  shinies' = IF StripLower(raw) # "y"
                          THEN [kept EXCEPT !.outcome = "cancelled"]
                          ELSE [kept EXCEPT
                                  !.boxes = reorganize_boxes(shinies.boxes, pokemon_to_keep),
                                  !.outcome = "saved"]
    /\ UNCHANGED <<mem, op, arg, loc, ret, hunter, route102, farmer>>

NextSelect ==
    \/ SelectScan
    \/ SelectSpecies
    \/ SelectFinish

SpecSelect == InitSelect /\ [][NextSelect]_vars

\* the Pokemon marked for deletion, and the scanned Pokemon that are not
Marked == {shinies.to_delete[i] : i \in 1..Len(shinies.to_delete)}
Scanned == {shinies.pokemon_list[i] : i \in 1..Len(shinies.pokemon_list)}
Unmarked == Scanned \ Marked
GroupOf(species_name) == {p \in Scanned : p.species_name = species_name}
AtMost3(n) == IF n < 3 THEN n ELSE 3

\* C17: a Pokemon is marked for deletion only if its species group has more
\* than 3 members, the answer for that species was 'y', and at least 3 other
\* members of the species with an IV total >= its own are kept; every
\* species keeps min(group size, 3) or more Pokemon, in the list to keep and
\* in the boxes that are written.
C17_OnlySurplusIsDeleted ==
    /\ \A p \in Marked :
         /\ Cardinality(GroupOf(p.species_name)) > 3
         /\ shinies.answers[p.species_name] = "y"
         /\ Cardinality({q \in Unmarked : /\ q.species_name = p.species_name
                                          /\ q.iv_total >= p.iv_total}) >= 3
    /\ \A n \in {"Ralts", "Seedot"} :
         Cardinality(GroupOf(n) \cap Unmarked) >= AtMost3(Cardinality(GroupOf(n)))
    /\ shinies.pc = "done" /\ shinies.outcome # "no_pokemon" =>
         /\ {shinies.pokemon_to_keep[i] : i \in 1..Len(shinies.pokemon_to_keep)} = Unmarked
         /\ \A n \in {"Ralts", "Seedot"} :
              Cardinality({k \in 1..MaxSlots : shinies.boxes[k].species_name = n})
                >= AtMost3(Cardinality(GroupOf(n)))

\* a group of four or more was cut to its best three and the boxes rewritten,
\* the deleted Pokemon having a lower IV total than a kept one
C17_Witness ==
    /\ shinies.pc = "done"
    /\ shinies.outcome = "saved"
    /\ \E p \in Marked : \E q \in Unmarked :
         /\ q.species_name = p.species_name
         /\ q.iv_total > p.iv_total
         /\ p.iv_total > 0

----------------------------------------------------------------------------
(* src/src/hunt.py: StarterShinyHunter.hunt, the soft-reset hunter, one    *)
(* action per loop iteration.  In this specification hunter is the         *)
(* StarterShinyHunter and mem the record of party slot 1.                  *)

\* hunt(max_attempts=None, error_retry_limit=3)
starter_error_retry_limit == 3

\* attempts after which the model stops following a starter hunt
MaxStarterAttempts == 4

\* error_retry_limit arguments of the calls
StarterRetryLimits == {1, starter_error_retry_limit}

\* get_starter_species_dict(): Treecko, Torchic, Mudkip
starter_species_dict == {277, 280, 283}

\* party slot 1 after a selection: nothing yet, a shiny Torchic (value 7), a
\* plain one (value 8)
StarterRecords ==
    {MkRecord(pv, <<TID, SID>>, [species |-> 280, iv |-> <<120, 86, 52, 18>>, max_hp |-> 20]) :
       pv \in {Zero32, U32(48026), U32(48021)}}

\* StarterShinyHunter("torchic") before hunt() is called; max_attempts = 0
\* stands for None.  failed_in_a_row records the history of the loop: the
\* attempts in a row whose reset failed or whose body raised.
InitStarter ==
    /\ mem \in {r \in StarterRecords : read_u32(r, POKEMON_PV_OFFSET) = Zero32}
    /\ op = "none"
    /\ arg = [none |-> TRUE]
    /\ loc = [none |-> TRUE]
    /\ ret = [none |-> TRUE]
    /\ route102 = Idle /\ farmer = Idle /\ shinies = Idle
    /\ \E max_attempts \in {0, MaxStarterAttempts}, limit \in StarterRetryLimits :
         hunter = [pc |-> "loop",
                   max_attempts |-> max_attempts,
                   error_retry_limit |-> limit,
                   attempts |-> 0,
                   consecutive_errors |-> 0,
                   failed_in_a_row |-> 0,
                   species_id |-> 0, is_shiny |-> FALSE,
                   result |-> FALSE, reason |-> ""]

\* the max_attempts test at the top of while True
StarterStops(h) == h.max_attempts # 0 /\ h.attempts >= h.max_attempts

\* while True, max_attempts reached: return False
StarterMaxAttempts ==
    /\ hunter.pc = "loop"
    /\ StarterStops(hunter)
    /\ hunter' = HuntReturn(hunter, FALSE, "max_attempts")
    /\ UNCHANGED <<mem, op, arg, loc, ret, route102, farmer, shinies>>

\* an attempt whose reset_to_save returns False
StarterResetFails ==
    /\ hunter.pc = "loop"
    /\ ~StarterStops(hunter)
    /\ hunter.attempts < MaxStarterAttempts
    /\ LET h == [hunter EXCEPT !.attempts = @ + 1,
                               !.consecutive_errors = @ + 1,
                               !.failed_in_a_row = @ + 1]
       IN  hunter' = IF h.consecutive_errors >= h.error_retry_limit
                       THEN HuntReturn(h, FALSE, "retry_limit")
                       ELSE h
    /\ UNCHANGED <<mem, op, arg, loc, ret, route102, farmer, shinies>>

\* an attempt that resets, selects the starter and tests it, raising nothing
StarterAttempt ==
    /\ hunter.pc = "loop"
    /\ ~StarterStops(hunter)
    /\ hunter.attempts < MaxStarterAttempts
    /\ \E m \in StarterRecords :
         /\ mem' = m
         /\ \E found \in {decrypt_species(m, starter_species_dict).ret},
               shiny \in {check_shiny(m, TID, SID)} :
              LET h == [hunter EXCEPT !.attempts = @ + 1,
                                      !.consecutive_errors = 0,
                                      !.failed_in_a_row = 0,
                                      !.species_id = found.species_id,
                                      !.is_shiny = shiny.is_shiny]
              IN  hunter' = IF shiny.pv # Zero32 /\ shiny.is_shiny
                              THEN HuntReturn(h, TRUE, "shiny")
                              ELSE h
    /\ UNCHANGED <<op, arg, loc, ret, route102, farmer, shinies>>

\* an attempt whose body raises: reset_to_save catches its own exceptions, so
\* the exception comes after the reset has succeeded and the count is back
\* at 0; the handler counts it and resets again
StarterRaise ==
    /\ hunter.pc = "loop"
    /\ ~StarterStops(hunter)
    /\ hunter.attempts < MaxStarterAttempts
    /\ \E m \in StarterRecords :
         LET h == [hunter EXCEPT !.attempts = @ + 1,
                                 !.consecutive_errors = 0 + 1,
                                 !.failed_in_a_row = @ + 1]
         IN  IF h.consecutive_errors >= h.error_retry_limit
               THEN hunter' = HuntReturn(h, FALSE, "retry_limit") /\ UNCHANGED mem
               ELSE hunter' = h /\ mem' = m
    /\ UNCHANGED <<op, arg, loc, ret, route102, farmer, shinies>>

NextStarter ==
    \/ StarterMaxAttempts
    \/ StarterResetFails
    \/ StarterAttempt
    \/ StarterRaise

SpecStarter == InitStarter /\ [][NextStarter]_vars

\* C21: once error_retry_limit attempts in a row have failed (the reset
\* returned False or the attempt raised), hunt has returned False.
C21_GivesUpAtRetryLimit ==
    hunter.failed_in_a_row >= hunter.error_retry_limit =>
        (hunter.pc = "returned" /\ ~hunter.result)

====
